---- MODULE Spec2Model ----
(***************************************************************************)
(* Model of the order pipeline of mach_five: the Redis order cache         *)
(* (internal/cache/redis.go), the read module that fills it                *)
(* (internal/reader/sheets.go) and the trigger that drains it              *)
(* (internal/trigger/trigger.go, internal/broker/broker.go).               *)
(*                                                                         *)
(* Instants are whole seconds.  Redis key expiry is part of the passage of *)
(* time: a key whose TTL has elapsed is gone at the next instant.          *)
(***************************************************************************)
EXTENDS Integers, Sequences, FiniteSets, TLC

\* ---------------------------------------------------------------- bounds
NumOrders == 1        \* rows of the sheet (one order id per row)
NumDispatchers == 2   \* trigger processes sharing the Redis store
WorkerPoolSize == 1   \* cfg.Trigger.WorkerPoolSize
TimeStep == 10        \* seconds that pass in one Tick
MaxTime == 40         \* last instant explored
MaxPlaced == 2        \* the placement counter saturates here

\* ------------------------------------------------------ program constants
LockTTL == 30         \* lockTTL := 30 * time.Second
Grace == 10           \* order.ScheduledTime.Add(10 * time.Second)

Ids == 1..NumOrders
Dispatchers == 1..NumDispatchers
Workers == 1..WorkerPoolSize

NoKey == 0            \* a Redis key that does not exist (GET returns redis.Nil)
NoScore == -1         \* member absent from the sorted set pending_orders
NoOrder == 0          \* a worker that holds no order
Never == 0 - 1        \* an instant that has not happened

VARIABLES
    now,        \* the wall clock, in seconds
    rec,        \* rec[id]: expiry instant of key order:{id}, or NoKey
    idx,        \* idx[id]: score of id in pending_orders, or NoScore
    lock,       \* lock[id]: instant at which key lock:order:{id} expires, or NoKey
    ing,        \* the read module: [pc, list] (allOrders still to be cached)
    disp,       \* disp[d]: [pc, chan, cancelled] of trigger process d
    wk,         \* wk[d][w]: worker w of process d
    placed,     \* placed[id]: broker placement calls made for id (saturating)
    hist        \* history kept for the properties

vars == <<now, rec, idx, lock, ing, disp, wk, placed, hist>>

\* The store operations command by command (StoreSpec below).
VARIABLES
    sNow,       \* the wall clock, in seconds
    sRec,       \* sRec[id]: key order:{id}: [exp: entry.ExpiryTime, dl: instant
                \*   at which Redis drops the key], or NoKey
    sIdx,       \* sIdx[id]: score of id in pending_orders, or NoScore
    sIns,       \* the StoreOrder call in progress in the read module
    sRem,       \* the RemoveOrder call in progress in the trigger
    sHist,      \* history kept for the properties
    sSched      \* sSched[id]: the scheduled instant of row id of the sheet

storeVars == <<sNow, sRec, sIdx, sIns, sRem, sHist, sSched>>

\* The rate limiter in front of the broker (GateSpec below).
VARIABLES
    gNow,       \* the wall clock, in token intervals of 1/Rate second
    gTokens,    \* tokens in the bucket of bm.rateLimit
    gPc,        \* the execution cycle: "idle", "running", "done"
    gChan,      \* orders still in orderChan
    gWk,        \* gWk[w]: position of worker w
    gHist       \* history kept for the properties

gateVars == <<gNow, gTokens, gPc, gChan, gWk, gHist>>

\* The read module row by row (IngestSpec below).
VARIABLES
    rNow,       \* the wall clock, in seconds since Sunday 00:00:00 IST
    rRows,      \* rRows[side]: the row of the to_buy / to_sell sheet
    rIng,       \* readAndCacheOrders: [pc, all, buyErr, sellErr, inserted]
    rStore,     \* the orders whose key order:{id} exists
    rHist       \* history kept for the properties

ingestVars == <<rNow, rRows, rIng, rStore, rHist>>

\* The two loops and the health check (LoopSpec below).
VARIABLES
    lCtx,       \* the context: "live" or "cancelled"
    lTick,      \* lTick[k]: a tick of ticker k waits in its channel
    lTrig,      \* RunContinuous: [pc, inProgress]
    lCheck,     \* lCheck[c]: execution c of MaintainSystemReadiness
    lRead,      \* SheetsReader.Start: its position
    lHist       \* history kept for the properties

loopVars == <<lCtx, lTick, lTrig, lCheck, lRead, lHist>>

\* One execution cycle of the worker pool (PoolSpec below) and one call of
\* the retrying broker path (RetrySpec below).
VARIABLES
    pCtx,       \* the context handed to ExecuteDueOrders: "live" or "cancelled"
    pRun,       \* ExecuteDueOrders: [pc, list, chan]
    pWk,        \* pWk[w]: goroutine w of the pool: [pc, cur]
    pStore,     \* the ids whose record and due-index entry exist
    pHist,      \* history kept for the properties
    bRetry      \* ExecuteOrderWithRetry: the call made for one order

poolVars == <<pCtx, pRun, pWk, pStore, pHist, bRetry>>

\* what the pipeline actions leave alone
aux == <<storeVars, gateVars, ingestVars, loopVars, poolVars>>

\* ------------------------------------------------- bounds of the store model
NumStoreOrders == 2   \* rows of the sheet in the store model
StoreStep == 5        \* seconds that pass in one StoreTick
StoreMaxTime == 20    \* last instant the store model explores

StoreIds == 1..NumStoreOrders

\* no key order:{id}
NoRec == [exp |-> Never, dl |-> Never]

\* no StoreOrder call made yet
NoCall == [pc |-> "idle", id |-> NoOrder, ttl |-> 0, res |-> "none"]

\* no RemoveOrder call in progress
NoRemove == [pc |-> "idle", id |-> NoOrder]

\* no insert completed since the store last lost something
NoPrev == [id |-> NoOrder, n |-> 0, score |-> NoScore]

\* the empty Redis database, no call in progress
StoreIdle ==
    /\ sNow = 0
    /\ sRec = [id \in StoreIds |-> NoRec]
    /\ sIdx = [id \in StoreIds |-> NoScore]
    /\ sIns = NoCall
    /\ sRem = NoRemove
    /\ sHist = [ord |-> <<>>, prev |-> NoPrev, lastDue |-> {}, removed |-> {},
                given |-> {}]
    /\ sSched = [id \in StoreIds |-> StoreStep]

\* --------------------------------------------------- bounds of the gate model
NumGateOrders == 10   \* orders due at the same instant
GateWorkers == 2      \* cfg.Trigger.WorkerPoolSize in the gate model
GateMaxTime == 9      \* last instant the gate model explores, in token intervals
MaxProbes == 1        \* health checks made

\* the limiter's parameters
Rate == 3             \* cfg.Broker.RateLimit.RequestsPerSecond
Burst == 3            \* cfg.Broker.RateLimit.BurstSize

GateWorkerIds == 1..GateWorkers

\* the counts of the last second: one entry per token interval, newest last
EmptyWindow == [i \in 1..(Rate + 1) |-> 0]

\* the limiter as rate.NewLimiter leaves it (a full bucket), no cycle started
GateIdle ==
    /\ gNow = 0
    /\ gTokens = Burst
    /\ gPc = "idle"
    /\ gChan = 0
    /\ gWk = [w \in GateWorkerIds |-> "off"]
    /\ gHist = [starts |-> EmptyWindow, lateEnds |-> 0, first |-> Never,
                last |-> Never, calls |-> 0, grants |-> 0, probes |-> 0]

\* ------------------------------------------------- bounds of the ingest model
MaxQty == 3           \* largest value of the quantity column (0: no usable value)
MaxLots == 3          \* largest value of the Lots column (0: not a positive number)
MaxPrice == 1         \* largest value of the price column
MaxMoney == 2         \* largest value of the Money Needed column
IngestLots == 2       \* largest value of the Lots column when time passes

\* time.Weekday
Sunday == 0
Saturday == 6

\* the clock of the ingest model: seconds since Sunday 00:00:00 IST
At(day, h, m, s) == ((day * 24 + h) * 60 + m) * 60 + s

\* the scheduled instants a row can carry: five seconds before Friday's
\* close, Saturday at ten, five seconds before Monday's open
SchedInstants == {At(5, 15, 29, 55), At(6, 10, 0, 0), At(8, 8, 59, 55)}

\* the instants at which something happens: around each scheduled instant
ClockInstants == {s + d : s \in SchedInstants, d \in {0 - 5, 0, 5, 10}}
FirstInstant == CHOOSE t \in ClockInstants : \A u \in ClockInstants : t <= u

\* a row as parseRows reads its columns
BuyRows == [symbol : {"A"}, sched : SchedInstants, qty : 0..MaxQty,
            lots : 0..MaxLots, price : 0..MaxPrice, money : {0, MaxMoney}]
SellRows == [symbol : {"A", "B"}, sched : SchedInstants, qty : {1}, lots : {1},
             price : {MaxPrice}, money : {0}]

\* the buy rows of the runs in which time passes
FewBuyRows == [symbol : {"A"}, sched : SchedInstants, qty : {IngestLots},
               lots : 1..IngestLots, price : {MaxPrice}, money : {0}]

\* the read module before its first cycle, at an instant of T, with a buy row
\* of B and a sell row of S; nothing stored, nothing placed
IngestFrom(B, S, T) ==
    /\ rNow \in T
    /\ \E b \in B : \E sl \in S :
           rRows = [side \in {"Buy", "Sell"} |-> IF side = "Buy" THEN b ELSE sl]
    /\ rIng = [pc |-> "wait", all |-> <<>>, buyErr |-> FALSE, sellErr |-> FALSE,
               inserted |-> 0]
    /\ rStore = {}
    /\ rHist = [parsed |-> <<>>, kept |-> {}, late |-> {}, last |-> <<>>]

\* the read module at rest, with one sheet
IngestIdle ==
    IngestFrom({[symbol |-> "A", sched |-> At(5, 15, 29, 55), qty |-> 1,
                 lots |-> 1, price |-> MaxPrice, money |-> 0]},
               {[symbol |-> "B", sched |-> At(5, 15, 29, 55), qty |-> 1,
                 lots |-> 1, price |-> MaxPrice, money |-> 0]},
               {FirstInstant})

\* --------------------------------------------------- bounds of the loop model
MaxChecks == 2        \* MaintainSystemReadiness executions that can coexist

CheckIds == 1..MaxChecks

\* no MaintainSystemReadiness execution
NoCheck == [pc |-> "off", by |-> "none", err |-> FALSE]

\* RunContinuous has called the initial MaintainSystemReadiness, Start the
\* initial readAndCacheOrders; the context is live and no ticker has fired
LoopIdle ==
    /\ lCtx = "live"
    /\ lTick = [k \in {"check", "health", "read"} |-> FALSE]
    /\ lTrig = [pc |-> "initial", inProgress |-> FALSE]
    /\ lCheck = [c \in CheckIds |->
                    IF c = 1 THEN [pc |-> "running", by |-> "initial",
                                   err |-> FALSE]
                    ELSE NoCheck]
    /\ lRead = "initial"
    /\ lHist = [failed |-> FALSE, skipped |-> FALSE, runAfterFail |-> FALSE]

\* --------------------------------------------------- bounds of the pool model
PoolOrders == 3       \* orders in the store, all of them due
PoolSize == 2         \* cfg.Trigger.WorkerPoolSize in the pool model

\* Before ExecuteDueOrders is called: the context is live, no goroutine of the
\* pool exists, every order is in the store; no broker call was asked for
MaxRetries == 3        \* executeOrder: ExecuteOrderWithRetry(ctx, order, 3)
MaxOrderSize == 2      \* config.Broker.OrderSplitting.MaxOrderSize, scaled down
RetryMaxQuantity == 5  \* largest quantity of the order handed to the broker manager

PoolIdle ==
    /\ pCtx = "live"
    /\ pRun = [pc |-> "idle", list |-> <<>>, chan |-> <<>>]
    /\ pWk = [w \in 1..(PoolOrders + PoolSize) |-> [pc |-> "off", cur |-> NoOrder]]
    /\ pStore = 1..PoolOrders
    /\ pHist = [by |-> [id \in 1..PoolOrders |-> <<>>], left |-> {},
                locked |-> {}, called |-> {}, failed |-> {}, removed |-> {}]
    /\ bRetry = [pc |-> "idle", qty |-> 0, parts |-> 0, part |-> 0, attempt |-> 0,
                 tokens |-> 0, gated |-> TRUE, calls |-> 0, errs |-> <<>>,
                 total |-> 0, fatal |-> FALSE, afterFatal |-> FALSE]

\* ------------------------------------------------------------------ orders

\* Every row of the sheet is scheduled one TimeStep after the start.
ScheduledTime(id) == TimeStep

\* an expiry that outlives the execution lock
ExpiryTime_Long(id) == ScheduledTime(id) + LockTTL + Grace

\* readAndCacheOrders: expiryTime := order.ScheduledTime.Add(10 * time.Second)
ExpiryTime(id) == ScheduledTime(id) + Grace

\* order.ScheduledTime.Unix()
Score(id) == ScheduledTime(id)

\* ------------------------------------------------------------- sequences

RECURSIVE SortByScore_Rev(_, _)
\* the members by descending score (ZREVRANGEBYSCORE)
SortByScore_Rev(S, sc) ==
    IF S = {} THEN <<>>
    ELSE LET m == CHOOSE x \in S :
                    \A y \in S : sc[x] > sc[y] \/ (sc[x] = sc[y] /\ x >= y)
         IN  <<m>> \o SortByScore_Rev(S \ {m}, sc)

RECURSIVE SortByScore(_, _)
\* ZRANGEBYSCORE returns members by ascending score, equal scores by member.
SortByScore(S, sc) ==
    IF S = {} THEN <<>>
    ELSE LET m == CHOOSE x \in S :
                    \A y \in S : sc[x] < sc[y] \/ (sc[x] = sc[y] /\ x <= y)
         IN  <<m>> \o SortByScore(S \ {m}, sc)

\* ------------------------------------------------------------------ store

\* RedisCache.RemoveOrder: DEL order:{id}, ZREM pending_orders id
RemoveOrderRec(r, id) == [r EXCEPT ![id] = NoKey]
RemoveOrderIdx(x, id) == [x EXCEPT ![id] = NoScore]

\* GetOrdersDueForExecution, the ZRANGEBYSCORE 0..now
DueCandidates(t) == {id \in Ids : idx[id] # NoScore /\ idx[id] <= t}

\* ... members whose GET returned redis.Nil (ZREM, continue)
DueMissing(t) == {id \in DueCandidates(t) : rec[id] = NoKey}

\* ... members with now.After(entry.ExpiryTime) (RemoveOrder, continue)
DueExpired(t) == {id \in DueCandidates(t) : rec[id] # NoKey /\ t > rec[id]}

\* ... the orders appended to the result
DueOrders(t) ==
    SortByScore(DueCandidates(t) \ (DueMissing(t) \cup DueExpired(t)), idx)

\* Redis drops a key once its TTL has elapsed.
ExpireKeys(k, t) == [id \in Ids |-> IF k[id] # NoKey /\ k[id] <= t THEN NoKey ELSE k[id]]

\* ----------------------------------------------------------------- workers

IdleWorker == [pc |-> "off", cur |-> NoOrder, calls |-> 0, gate |-> "none",
               removed |-> FALSE, emitted |-> "no", acqAt |-> Never]

\* pcs between a successful TryLock and the end of executeOrder
AttemptPcs == {"gate", "broker", "failed", "succeeded", "unlock"}

\* executeOrder has returned: the worker is back at "for order := range orderChan"
NextOrder == [IdleWorker EXCEPT !.pc = "recv"]

InAttempt(d, w, id) == wk[d][w].cur = id /\ wk[d][w].pc \in AttemptPcs

Attempting(id) == {p \in Dispatchers \X Workers : InAttempt(p[1], p[2], id)}

SetWk(d, w, r) == [wk EXCEPT ![d][w] = r]

Inc(n) == IF n < MaxPlaced THEN n + 1 ELSE n

\* -------------------------------------------------------------------- Init

\* the pipeline right after the processes were constructed
PipelineIdle ==
    /\ now = 0
    /\ rec = [id \in Ids |-> NoKey]
    /\ idx = [id \in Ids |-> NoScore]
    /\ lock = [id \in Ids |-> NoKey]
    /\ ing = [pc |-> "idle", list |-> <<>>]
    /\ disp = [d \in Dispatchers |-> [pc |-> "idle", chan |-> <<>>, cancelled |-> FALSE]]
    /\ wk = [d \in Dispatchers |-> [w \in Workers |-> IdleWorker]]
    /\ placed = [id \in Ids |-> 0]
    /\ hist = [lastAcq |-> [id \in Ids |-> Never],
               unlocked |-> [id \in Ids |-> FALSE],
               overran |-> [id \in Ids |-> FALSE],
               done |-> [id \in Ids |-> FALSE],
               crashT0 |-> [id \in Ids |-> Never],
               afterCrash |-> [id \in Ids |-> FALSE]]

Init == PipelineIdle /\ StoreIdle /\ GateIdle /\ IngestIdle /\ LoopIdle /\ PoolIdle

\* -------------------------------------------------------------------- time

\* One TimeStep passes; keys whose TTL has elapsed are dropped by Redis.
Tick ==
    /\ now + TimeStep <= MaxTime
    /\ now' = now + TimeStep
    /\ rec' = ExpireKeys(rec, now')
    /\ lock' = ExpireKeys(lock, now')
    /\ hist' = [hist EXCEPT !.overran = [id \in Ids |->
                    hist.overran[id] \/
                    \E p \in Attempting(id) : wk[p[1]][p[2]].acqAt + LockTTL <= now']]
    /\ UNCHANGED <<idx, ing, disp, wk, placed, aux>>

\* ------------------------------------------------------------- read module

\* parseRows: a row whose scheduledTime.Before(nowIST) is skipped
RowKept(id, t) == ~(ScheduledTime(id) < t)

ParsedOrders(t) == SelectSeq([i \in 1..NumOrders |-> i], LAMBDA id : RowKept(id, t))

\* StoreOrder: ttl := time.Until(expiryTime); if ttl <= 0 return error
StoreOrderOk(id, t) == ExpiryTime(id) - t > 0

\* StoreOrder: SET order:{id} data ttl
StoreOrderRec(r, id) == [r EXCEPT ![id] = ExpiryTime(id)]

\* StoreOrder: ZADD pending_orders score id
StoreOrderIdx(x, id) == [x EXCEPT ![id] = Score(id)]

\* readAndCacheOrders, up to the summary: both sheets are read and parsed
ReadSheets ==
    /\ ing.pc = "idle"
    /\ ing' = IF ParsedOrders(now) = <<>> THEN ing
              ELSE [pc |-> "caching", list |-> ParsedOrders(now)]
    /\ UNCHANGED <<now, rec, idx, lock, disp, wk, placed, hist, aux>>

\* readAndCacheOrders, one iteration of "for _, order := range allOrders"
CacheOrder ==
    /\ ing.pc = "caching"
    /\ LET id == Head(ing.list) IN
       /\ IF StoreOrderOk(id, now)
          THEN /\ rec' = StoreOrderRec(rec, id)
               /\ idx' = StoreOrderIdx(idx, id)
          ELSE UNCHANGED <<rec, idx>>
       /\ ing' = IF Tail(ing.list) = <<>> THEN [pc |-> "idle", list |-> <<>>]
                 ELSE [ing EXCEPT !.list = Tail(ing.list)]
    /\ UNCHANGED <<now, lock, disp, wk, placed, hist, aux>>

\* ----------------------------------------------------------------- trigger

\* ExecuteDueOrders up to the start of the workers: the due query with its
\* evictions, then the buffered channel is filled and closed.
ExecuteDueOrders(d) ==
    /\ disp[d].pc = "idle"
    /\ rec' = [id \in Ids |-> IF id \in DueExpired(now) THEN NoKey ELSE rec[id]]
    /\ idx' = [id \in Ids |-> IF id \in DueMissing(now) \cup DueExpired(now)
                              THEN NoScore ELSE idx[id]]
    /\ IF DueOrders(now) = <<>>
       THEN UNCHANGED <<disp, wk>>
       ELSE /\ disp' = [disp EXCEPT ![d].pc = "running", ![d].chan = DueOrders(now)]
            /\ wk' = [wk EXCEPT ![d] = [w \in Workers |-> NextOrder]]
    /\ UNCHANGED <<now, lock, ing, placed, hist, aux>>

\* ExecuteDueOrders: wg.Wait() returns once every worker has returned
WaitReturn(d) ==
    /\ disp[d].pc = "running"
    /\ \A w \in Workers : wk[d][w].pc = "off"
    /\ disp' = [disp EXCEPT ![d].pc = "idle", ![d].chan = <<>>]
    /\ UNCHANGED <<now, rec, idx, lock, ing, wk, placed, hist, aux>>

\* worker: "for order := range orderChan" with the ctx.Done() select
WorkerRecv(d, w) ==
    /\ wk[d][w].pc = "recv"
    /\ IF disp[d].chan = <<>>
       THEN /\ wk' = SetWk(d, w, IdleWorker)
            /\ UNCHANGED disp
       ELSE /\ disp' = [disp EXCEPT ![d].chan = Tail(disp[d].chan)]
            /\ wk' = SetWk(d, w, IF disp[d].cancelled THEN IdleWorker
                                 ELSE [IdleWorker EXCEPT !.pc = "lock",
                                                         !.cur = Head(disp[d].chan)])
    /\ UNCHANGED <<now, rec, idx, lock, ing, placed, hist, aux>>

\* a plain SET in place of SETNX: the key is written whoever holds it
SetNXResult_Overwrite(id) == TRUE

\* TryLock: SETNX lock:order:{id} succeeds iff the key is absent
SetNXResult(id) == lock[id] = NoKey

\* the lock written with the grace window as its TTL
LockExpiry_Grace(t) == t + Grace

\* TryLock(order.ID, lockTTL): the key expires lockTTL after it was set
LockExpiry(t) == t + LockTTL

\* executeOrder: acquired, err := t.cache.TryLock(order.ID, lockTTL)
TryLock(d, w) ==
    /\ wk[d][w].pc = "lock"
    /\ LET id == wk[d][w].cur IN
       \/ /\ wk' = SetWk(d, w, [wk[d][w] EXCEPT !.pc = "rmLockErr"])
          /\ UNCHANGED <<lock, hist>>
       \/ /\ SetNXResult(id)
          /\ lock' = [lock EXCEPT ![id] = LockExpiry(now)]
          /\ wk' = SetWk(d, w, [wk[d][w] EXCEPT !.pc = "gate", !.acqAt = now])
          /\ hist' = [hist EXCEPT !.lastAcq[id] = now, !.unlocked[id] = FALSE]
       \/ /\ ~SetNXResult(id)
          /\ wk' = SetWk(d, w, [wk[d][w] EXCEPT !.pc = "skip"])
          /\ UNCHANGED <<lock, hist>>
    /\ UNCHANGED <<now, rec, idx, ing, disp, placed, aux>>

\* executeOrder: err != nil from TryLock: removeOrder(..., "lock acquisition failed"); return
RemoveAfterLockError(d, w) ==
    /\ wk[d][w].pc = "rmLockErr"
    /\ rec' = RemoveOrderRec(rec, wk[d][w].cur)
    /\ idx' = RemoveOrderIdx(idx, wk[d][w].cur)
    /\ wk' = SetWk(d, w, NextOrder)
    /\ UNCHANGED <<now, lock, ing, disp, placed, hist, aux>>

\* the deferred ReleaseLock registered before the !acquired check
SkipLocked_Release(d, w) ==
    /\ wk[d][w].pc = "skip"
    /\ lock' = [lock EXCEPT ![wk[d][w].cur] = NoKey]
    /\ wk' = SetWk(d, w, NextOrder)
    /\ UNCHANGED <<now, rec, idx, ing, disp, placed, hist, aux>>

\* executeOrder: !acquired: log "already being processed" and return
SkipLocked(d, w) ==
    /\ wk[d][w].pc = "skip"
    /\ wk' = SetWk(d, w, NextOrder)
    /\ UNCHANGED <<now, rec, idx, lock, ing, disp, placed, hist, aux>>

\* BrokerManager.ExecuteOrder: bm.rateLimit.Wait(ctx); a cancelled context
\* makes Wait return an error and ExecuteOrder return it without a broker call
RateLimitWait(d, w) ==
    /\ wk[d][w].pc = "gate"
    /\ wk' = SetWk(d, w, IF disp[d].cancelled
                         THEN [wk[d][w] EXCEPT !.pc = "failed", !.gate = "err"]
                         ELSE [wk[d][w] EXCEPT !.pc = "broker", !.gate = "ok"])
    /\ UNCHANGED <<now, rec, idx, lock, ing, disp, placed, hist, aux>>

\* a failed call sent back to the rate limiter for another try
AfterBroker_Retry(ok) == IF ok THEN "succeeded" ELSE "gate"

\* where executeOrder continues after bm.broker.ExecuteOrder returned
AfterBroker(ok) == IF ok THEN "succeeded" ELSE "failed"

\* BrokerManager.ExecuteOrder: bm.broker.ExecuteOrder(ctx, order), one placement
BrokerCall(d, w) ==
    /\ wk[d][w].pc = "broker"
    /\ \E ok \in BOOLEAN :
         wk' = SetWk(d, w, [wk[d][w] EXCEPT !.pc = AfterBroker(ok),
                                            !.calls = Inc(wk[d][w].calls)])
    /\ placed' = [placed EXCEPT ![wk[d][w].cur] = Inc(placed[wk[d][w].cur])]
    /\ hist' = [hist EXCEPT !.afterCrash[wk[d][w].cur] =
                    hist.afterCrash[wk[d][w].cur] \/ hist.crashT0[wk[d][w].cur] # Never]
    /\ UNCHANGED <<now, rec, idx, lock, ing, disp, aux>>

\* logProfilingMetrics: the outcome of the attempt is emitted
Emitted(r) == IF r.removed THEN "afterRemove" ELSE "beforeRemove"

\* executeOrder, err != nil: logProfilingMetrics(metrics, false, err.Error()),
\* then t.removeOrder(order.ID, err.Error()); return
FailurePath(d, w) ==
    /\ wk[d][w].pc = "failed"
    /\ rec' = RemoveOrderRec(rec, wk[d][w].cur)
    /\ idx' = RemoveOrderIdx(idx, wk[d][w].cur)
    /\ wk' = SetWk(d, w, [wk[d][w] EXCEPT !.pc = "unlock",
                                          !.emitted = Emitted(wk[d][w]),
                                          !.removed = TRUE])
    /\ hist' = [hist EXCEPT !.done[wk[d][w].cur] =
                    hist.done[wk[d][w].cur] \/ wk[d][w].calls > 0]
    /\ UNCHANGED <<now, lock, ing, disp, placed, aux>>

\* executeOrder, err == nil: t.removeOrder(order.ID, ""), then
\* logProfilingMetrics(metrics, result.Success, result.ErrorMessage)
SuccessPath(d, w) ==
    /\ wk[d][w].pc = "succeeded"
    /\ rec' = RemoveOrderRec(rec, wk[d][w].cur)
    /\ idx' = RemoveOrderIdx(idx, wk[d][w].cur)
    /\ wk' = SetWk(d, w, [wk[d][w] EXCEPT !.pc = "unlock",
                                          !.removed = TRUE,
                                          !.emitted = Emitted([removed |-> TRUE])])
    /\ hist' = [hist EXCEPT !.done[wk[d][w].cur] = TRUE]
    /\ UNCHANGED <<now, lock, ing, disp, placed, aux>>

\* the deferred t.cache.ReleaseLock(order.ID): DEL lock:order:{id}
ReleaseLock(d, w) ==
    /\ wk[d][w].pc = "unlock"
    /\ lock' = [lock EXCEPT ![wk[d][w].cur] = NoKey]
    /\ wk' = SetWk(d, w, NextOrder)
    /\ hist' = [hist EXCEPT !.unlocked[wk[d][w].cur] = TRUE]
    /\ UNCHANGED <<now, rec, idx, ing, disp, placed, aux>>

\* the shutdown signal cancels the context of process d
Cancel(d) ==
    /\ disp[d].pc \in {"idle", "running"}
    /\ ~disp[d].cancelled
    /\ disp' = [disp EXCEPT ![d].cancelled = TRUE]
    /\ UNCHANGED <<now, rec, idx, lock, ing, wk, placed, hist, aux>>

\* RunContinuous: case <-ctx.Done(): return ctx.Err()
Stop(d) ==
    /\ disp[d].pc = "idle"
    /\ disp[d].cancelled
    /\ disp' = [disp EXCEPT ![d].pc = "stopped"]
    /\ UNCHANGED <<now, rec, idx, lock, ing, wk, placed, hist, aux>>

\* ids whose lock a worker of d holds, attempt not yet past removeOrder
HeldUnremoved(d) ==
    {id \in Ids : \E w \in Workers :
        /\ InAttempt(d, w, id)
        /\ ~wk[d][w].removed
        /\ lock[id] = wk[d][w].acqAt + LockTTL}

\* process d dies: its goroutines stop where they are, its keys stay in Redis
Crash(d) ==
    /\ disp[d].pc \in {"idle", "running"}
    /\ disp' = [disp EXCEPT ![d].pc = "crashed", ![d].chan = <<>>]
    /\ wk' = [wk EXCEPT ![d] = [w \in Workers |-> [IdleWorker EXCEPT !.pc = "dead"]]]
    /\ hist' = [hist EXCEPT
          !.crashT0 = [id \in Ids |-> IF id \in HeldUnremoved(d)
                                      THEN lock[id] - LockTTL ELSE hist.crashT0[id]],
          !.afterCrash = [id \in Ids |-> IF id \in HeldUnremoved(d)
                                         THEN FALSE ELSE hist.afterCrash[id]]]
    /\ UNCHANGED <<now, rec, idx, lock, ing, placed, aux>>

\* -------------------------------------------------------------------- Next

WorkerStep(d, w) ==
    \/ WorkerRecv(d, w)
    \/ TryLock(d, w)
    \/ RemoveAfterLockError(d, w)
    \/ SkipLocked(d, w)
    \/ RateLimitWait(d, w)
    \/ BrokerCall(d, w)
    \/ FailurePath(d, w)
    \/ SuccessPath(d, w)
    \/ ReleaseLock(d, w)

Next ==
    \/ Tick
    \/ ReadSheets
    \/ CacheOrder
    \/ \E d \in Dispatchers : ExecuteDueOrders(d)
    \/ \E d \in Dispatchers : WaitReturn(d)
    \/ \E d \in Dispatchers : \E w \in Workers : WorkerStep(d, w)
    \/ \E d \in Dispatchers : Cancel(d)
    \/ \E d \in Dispatchers : Stop(d)
    \/ \E d \in Dispatchers : Crash(d)

Spec == Init /\ [][Next]_vars

TypeOK ==
    /\ now \in 0..MaxTime
    /\ \A id \in Ids : rec[id] \in Nat /\ lock[id] \in Nat /\ idx[id] \in Int
    /\ \A id \in Ids : placed[id] \in 0..MaxPlaced

\* =============================================================== the store
\* StoreOrder, RemoveOrder and GetOrdersDueForExecution one Redis command at
\* a time, so that calls of the read module and of the trigger interleave.

\* parseRows: the scheduled instant of row id
StoreSched(id) == sSched[id]

\* readAndCacheOrders: expiryTime := order.ScheduledTime.Add(10 * time.Second)
StoreExpiry(id) == StoreSched(id) + Grace

\* the score taken from the clock at insertion
StoreScore_CreatedAt(id) == sNow

\* StoreOrder: score := float64(order.ScheduledTime.Unix())
StoreScore(id) == StoreSched(id)

\* a zero ttl let through
TtlRefused_Negative(ttl) == ttl < 0

\* StoreOrder: if ttl <= 0 { return error "expiry time is in the past" }
TtlRefused(ttl) == ttl <= 0

\* only the members scheduled within the last second
ZRangeMin_Window(t) == t - 1

\* GetOrdersDueForExecution: ZRangeBy{Min: "0", ...}
ZRangeMin(t) == 0

\* GetOrdersDueForExecution: ZRangeByScore(pending_orders, Min, Max = now.Unix())
StoreCandidates(t) ==
    {id \in StoreIds : sIdx[id] # NoScore /\ ZRangeMin(t) <= sIdx[id] /\ sIdx[id] <= t}

\* the redis.Nil branch left out: a member without record is passed over
StoreMissing_None(t) == {}

\* ... err == redis.Nil: ZRem(pending_orders, orderID); continue
StoreMissing(t) == {id \in StoreCandidates(t) : sRec[id] = NoRec}

\* the expiry check left out
StoreExpired_None(t) == {}

\* ... now.After(entry.ExpiryTime): r.RemoveOrder(entry.Order.ID); continue
StoreExpired(t) == {id \in StoreCandidates(t) : sRec[id] # NoRec /\ t > sRec[id].exp}

\* ... orders = append(orders, entry.Order)
StoreDueIds(t) == StoreCandidates(t) \ (StoreMissing(t) \cup StoreExpired(t))

\* the slice GetOrdersDueForExecution returns
StoreDueOrders(t) == SortByScore(StoreDueIds(t), sIdx)

\* the keys Redis drops when the clock reaches t
StoreTtlExpired(t) == {id \in StoreIds : sRec[id] # NoRec /\ sRec[id].dl <= t}

RemoveFromSeq(q, id) == SelectSeq(q, LAMBDA x : x # id)

\* the history after the store lost the entries of the ids in S
Lost(S) == [sHist EXCEPT !.removed = sHist.removed \cup S,
                         !.prev = IF S = {} THEN sHist.prev ELSE NoPrev]

\* the instants a row of the sheet can be scheduled at
SchedTimes == {StoreStep, 2 * StoreStep}

\* StoreSpec starts from the empty database with any sheet; the pipeline
\* stands still.
StoreInit ==
    /\ sNow = 0
    /\ sRec = [id \in StoreIds |-> NoRec]
    /\ sIdx = [id \in StoreIds |-> NoScore]
    /\ sIns = NoCall
    /\ sRem = NoRemove
    /\ sHist = [ord |-> <<>>, prev |-> NoPrev, lastDue |-> {}, removed |-> {},
                given |-> {}]
    /\ sSched \in [StoreIds -> SchedTimes]
    /\ PipelineIdle
    /\ GateIdle
    /\ IngestIdle
    /\ LoopIdle
    /\ PoolIdle

\* One StoreStep passes; Redis drops the keys whose TTL has elapsed.
StoreTick ==
    /\ sNow + StoreStep <= StoreMaxTime
    /\ sNow' = sNow + StoreStep
    /\ sRec' = [id \in StoreIds |->
                   IF id \in StoreTtlExpired(sNow') THEN NoRec ELSE sRec[id]]
    /\ sHist' = Lost(StoreTtlExpired(sNow'))
    /\ UNCHANGED <<sIdx, sIns, sRem, sSched, vars, gateVars, ingestVars, loopVars, poolVars>>

\* StoreOrder up to the ttl check: ttl := time.Until(expiryTime)
InsertBegin(id) ==
    /\ sIns.pc = "idle"
    /\ LET ttl == StoreExpiry(id) - sNow IN
       sIns' = IF TtlRefused(ttl)
               THEN [NoCall EXCEPT !.res = "expired"]
               ELSE [pc |-> "set", id |-> id, ttl |-> ttl, res |-> "none"]
    /\ UNCHANGED <<sNow, sRec, sIdx, sRem, sHist, sSched, vars, gateVars, ingestVars, loopVars, poolVars>>

\* StoreOrder: r.client.Set(r.ctx, key, data, ttl)
InsertSet ==
    /\ sIns.pc = "set"
    /\ sRec' = [sRec EXCEPT ![sIns.id] =
                   [exp |-> StoreExpiry(sIns.id), dl |-> sNow + sIns.ttl]]
    /\ sIns' = [sIns EXCEPT !.pc = "zadd"]
    /\ UNCHANGED <<sNow, sIdx, sRem, sHist, sSched, vars, gateVars, ingestVars, loopVars, poolVars>>

\* StoreOrder: r.client.ZAdd(r.ctx, "pending_orders", {score, orderID}); return nil
InsertZAdd ==
    /\ sIns.pc = "zadd"
    /\ sIdx' = [sIdx EXCEPT ![sIns.id] = StoreScore(sIns.id)]
    /\ sIns' = [NoCall EXCEPT !.res = "ok"]
    /\ sHist' = [sHist EXCEPT
          !.ord = IF sIdx[sIns.id] = NoScore THEN Append(sHist.ord, sIns.id)
                  ELSE sHist.ord,
          !.prev = IF sHist.prev.id = sIns.id
                   THEN [sHist.prev EXCEPT !.n = 2]
                   ELSE [id |-> sIns.id, n |-> 1, score |-> StoreScore(sIns.id)]]
    /\ UNCHANGED <<sNow, sRec, sRem, sSched, vars, gateVars, ingestVars, loopVars, poolVars>>

\* RemoveOrder called by the trigger for an order a due query gave it:
\* r.client.Del(r.ctx, key)
RemoveDel(id) ==
    /\ sRem.pc = "idle"
    /\ id \in sHist.given
    /\ sRec' = [sRec EXCEPT ![id] = NoRec]
    /\ sRem' = [pc |-> "zrem", id |-> id]
    /\ sHist' = Lost({id})
    /\ UNCHANGED <<sNow, sIdx, sIns, sSched, vars, gateVars, ingestVars, loopVars, poolVars>>

\* RemoveOrder: r.client.ZRem(r.ctx, "pending_orders", orderID)
RemoveZRem ==
    /\ sRem.pc = "zrem"
    /\ sIdx' = [sIdx EXCEPT ![sRem.id] = NoScore]
    /\ sRem' = NoRemove
    /\ sHist' = [Lost({sRem.id}) EXCEPT !.ord = RemoveFromSeq(sHist.ord, sRem.id)]
    /\ UNCHANGED <<sNow, sRec, sIns, sSched, vars, gateVars, ingestVars, loopVars, poolVars>>

\* the eviction without the ZREM of the redis.Nil branch
StoreEvicted_ExpiredOnly(t) == StoreExpired(t)

\* the ids one GetOrdersDueForExecution(now) call takes out of the store
StoreEvicted(t) == StoreMissing(t) \cup StoreExpired(t)

\* GetOrdersDueForExecution(now), called by ExecuteDueOrders with time.Now()
StoreDue ==
    /\ sRec' = [id \in StoreIds |->
                   IF id \in StoreExpired(sNow) THEN NoRec ELSE sRec[id]]
    /\ sIdx' = [id \in StoreIds |->
                   IF id \in StoreEvicted(sNow) THEN NoScore ELSE sIdx[id]]
    /\ sHist' = [sHist EXCEPT
          !.ord = SelectSeq(sHist.ord, LAMBDA x : x \notin StoreEvicted(sNow)),
          !.prev = IF StoreEvicted(sNow) = {} THEN sHist.prev ELSE NoPrev,
          !.lastDue = StoreDueIds(sNow),
          !.removed = {},
          !.given = sHist.given \cup StoreDueIds(sNow)]
    /\ UNCHANGED <<sNow, sIns, sRem, sSched, vars, gateVars, ingestVars, loopVars, poolVars>>

StoreNext ==
    \/ StoreTick
    \/ \E id \in StoreIds : InsertBegin(id)
    \/ InsertSet
    \/ InsertZAdd
    \/ \E id \in StoreIds : RemoveDel(id)
    \/ RemoveZRem
    \/ StoreDue

StoreSpec == StoreInit /\ [][StoreNext]_storeVars

\* Time runs on past the last instant explored, to an instant later than
\* every expiry where each StoreOrder call is refused, and on from there:
\* the TTL of every key elapses and Redis drops the keys.
StoreTtlRunsOut ==
    /\ sNow + StoreStep > StoreMaxTime
    /\ sNow' = StoreMaxTime + Grace + StoreStep
    /\ sRec' = [id \in StoreIds |-> NoRec]
    /\ sHist' = Lost({id \in StoreIds : sRec[id] # NoRec})
    /\ UNCHANGED <<sIdx, sIns, sRem, sSched, vars, gateVars, ingestVars, loopVars, poolVars>>

\* the empty database and a sheet whose rows take the instants in turn
StoreFairInit ==
    /\ StoreInit
    /\ sSched = [id \in StoreIds |-> (1 + ((id - 1) % 2)) * StoreStep]

\* Time passes, the trigger keeps polling (RunContinuous calls
\* ExecuteDueOrders at every tick of checkTicker) and the Redis commands of
\* the calls in flight are answered.
StoreFairSpec ==
    /\ StoreFairInit
    /\ [][StoreNext \/ StoreTtlRunsOut]_storeVars
    /\ WF_storeVars(StoreTick)
    /\ WF_storeVars(StoreTtlRunsOut)
    /\ WF_storeVars(StoreDue)
    /\ WF_storeVars(InsertSet)
    /\ WF_storeVars(InsertZAdd)
    /\ WF_storeVars(RemoveZRem)

\* ================================================================ the gate
\* One execution cycle of one trigger process seen from the rate limiter:
\* every worker takes an order, waits at bm.rateLimit and calls the broker.
\* The clock counts token intervals (1/Rate second): the limiter adds one
\* token per interval up to Burst.

\* a limiter that refills the whole bucket every interval
Refill_Full(t) == Burst

\* rate.Limiter: one token per 1/Rate second, at most Burst
Refill(t) == IF t < Burst THEN t + 1 ELSE Burst

\* a limiter that never blocks
Granted_Always(t) == TRUE

\* rate.Limiter.Wait: returns once a token is there
Granted(t) == t >= 1

\* the newest entry of a window raised by one
Count(win) == [win EXCEPT ![Rate + 1] = win[Rate + 1] + 1]

\* the instants of the last second the model explores
InLastSecond(t) == t >= GateMaxTime - Rate

\* a window after one token interval
Shift(win) == Tail(win) \o <<0>>

RECURSIVE SumSeq(_)
SumSeq(q) == IF q = <<>> THEN 0 ELSE Head(q) + SumSeq(Tail(q))

GateInit == Init

\* One token interval passes.  Before the cycle starts the bucket is full and
\* nothing changes with time.
GateTick ==
    /\ gPc = "running"
    /\ gNow < GateMaxTime
    /\ gNow' = gNow + 1
    /\ gTokens' = Refill(gTokens)
    /\ gHist' = [gHist EXCEPT !.starts = Shift(gHist.starts)]
    /\ UNCHANGED <<gPc, gChan, gWk, vars, storeVars, ingestVars, loopVars, poolVars>>

\* ExecuteDueOrders: NumGateOrders orders are due; the workers are started and
\* the channel is filled and closed
GateCycle ==
    /\ gPc = "idle"
    /\ gPc' = "running"
    /\ gChan' = NumGateOrders
    /\ gWk' = [w \in GateWorkerIds |-> "recv"]
    /\ UNCHANGED <<gNow, gTokens, gHist, vars, storeVars, ingestVars, loopVars, poolVars>>

\* worker: for order := range orderChan
GateRecv(w) ==
    /\ gWk[w] = "recv"
    /\ IF gChan = 0
       THEN gWk' = [gWk EXCEPT ![w] = "off"] /\ UNCHANGED gChan
       ELSE gWk' = [gWk EXCEPT ![w] = "gate"] /\ gChan' = gChan - 1
    /\ UNCHANGED <<gNow, gTokens, gPc, gHist, vars, storeVars, ingestVars, loopVars, poolVars>>

\* BrokerManager.ExecuteOrder: bm.rateLimit.Wait(ctx) returns and
\* bm.broker.ExecuteOrder(ctx, order) is called
GateWait(w) ==
    /\ gWk[w] = "gate"
    /\ Granted(gTokens)
    /\ gTokens' = gTokens - 1
    /\ gWk' = [gWk EXCEPT ![w] = "call"]
    /\ gHist' = [gHist EXCEPT !.starts = Count(gHist.starts),
                              !.first = IF gHist.first = Never THEN gNow ELSE gHist.first,
                              !.last = gNow,
                              !.calls = gHist.calls + 1,
                              !.grants = gHist.grants + 1]
    /\ UNCHANGED <<gNow, gPc, gChan, vars, storeVars, ingestVars, loopVars, poolVars>>

\* bm.broker.ExecuteOrder returns, after any latency; executeOrder ends
BrokerReturn(w) ==
    /\ gWk[w] = "call"
    /\ gWk' = [gWk EXCEPT ![w] = "recv"]
    /\ gHist' = [gHist EXCEPT !.lateEnds =
                    IF InLastSecond(gNow) THEN gHist.lateEnds + 1 ELSE gHist.lateEnds]
    /\ UNCHANGED <<gNow, gTokens, gPc, gChan, vars, storeVars, ingestVars, loopVars, poolVars>>

\* MaintainSystemReadiness: t.brokerManager.HealthCheck(ctx), which is
\* bm.broker.HealthCheck(ctx): a broker call, bm.rateLimit is not consulted
HealthProbe ==
    /\ gHist.probes < MaxProbes
    /\ gHist' = [gHist EXCEPT !.probes = gHist.probes + 1,
                              !.calls = gHist.calls + 1]
    /\ UNCHANGED <<gNow, gTokens, gPc, gChan, gWk, vars, storeVars, ingestVars, loopVars, poolVars>>

\* ExecuteDueOrders: wg.Wait() returns
GateDone ==
    /\ gPc = "running"
    /\ \A w \in GateWorkerIds : gWk[w] = "off"
    /\ gPc' = "done"
    /\ UNCHANGED <<gNow, gTokens, gChan, gWk, gHist, vars, storeVars, ingestVars, loopVars, poolVars>>

GateNext ==
    \/ GateTick
    \/ GateCycle
    \/ \E w \in GateWorkerIds : GateRecv(w)
    \/ \E w \in GateWorkerIds : GateWait(w)
    \/ \E w \in GateWorkerIds : BrokerReturn(w)
    \/ HealthProbe
    \/ GateDone

GateSpec == GateInit /\ [][GateNext]_gateVars

\* ================================================ the read module, row by row
\* The sheet holds one row per side, fixed for the run.  The clock steps
\* through ClockInstants; a key order:{id} is gone once its TTL has elapsed.

\* istTime.Hour() * 60 + istTime.Minute()
MinutesFromMidnight(t) == ((t % 86400) \div 3600) * 60 + (t % 3600) \div 60

\* the clock without its weekday test
IsMarketOpen_AnyDay(t) ==
    /\ MinutesFromMidnight(t) >= 9 * 60 + 0
    /\ MinutesFromMidnight(t) < 15 * 60 + 30

\* MarketHours.IsMarketOpen: a weekday, from 9:00 to 15:30
IsMarketOpen(t) ==
    LET weekday == (t \div 86400) % 7
    IN  IF weekday = Saturday \/ weekday = Sunday
        THEN FALSE
        ELSE /\ MinutesFromMidnight(t) >= 9 * 60 + 0
             /\ MinutesFromMidnight(t) < 15 * 60 + 30

\* MarketHours.ShouldUseAMO: return !m.IsMarketOpen(now)
ShouldUseAMO(t) == ~IsMarketOpen(t)

\* SheetsReader.shouldUseAMO: outside 9:00 to 15:30, any day of the week
shouldUseAMO(scheduledTime) ==
    \/ MinutesFromMidnight(scheduledTime) < 9 * 60 + 0
    \/ MinutesFromMidnight(scheduledTime) >= 15 * 60 + 30

\* parseRows: lots, defaulting to 1
Lots(row) == IF row.lots <= 0 THEN 1 ELSE row.lots

\* parseRows: totalQuantity, from the quantity column or from Money Needed /
\* Price, at least 1
TotalQuantity(row) ==
    LET fromMoney == IF row.price > 0 THEN row.money \div row.price ELSE 1
        raw == IF row.qty > 0 THEN row.qty ELSE fromMoney
    IN  IF raw <= 0 THEN 1 ELSE raw

\* the lot loop with the comparison made strict
OrderQuantity_Strict(baseQuantity, remainder, orderNum) ==
    IF orderNum < remainder THEN baseQuantity + 1 ELSE baseQuantity

\* parseRows: orderQuantity of lot orderNum
OrderQuantity(baseQuantity, remainder, orderNum) ==
    IF orderNum <= remainder THEN baseQuantity + 1 ELSE baseQuantity

\* models.GenerateOrderID: symbol + ":" + scheduledTime.Format(time.RFC3339),
\* the two parts kept apart
GenerateOrderID(symbol, scheduledTime) == <<symbol, scheduledTime>>

\* the id without the order number
OrderID_NoSuffix(symbol, scheduledTime, lots, orderNum) ==
    GenerateOrderID(symbol, scheduledTime)

\* parseRows: orderID, with "-orderNum" appended when lots > 1
OrderID(symbol, scheduledTime, lots, orderNum) ==
    IF lots > 1
    THEN Append(GenerateOrderID(symbol, scheduledTime), orderNum)
    ELSE GenerateOrderID(symbol, scheduledTime)

\* no row is skipped
InPast_Never(scheduledTime, t) == FALSE

\* parseRows: scheduledTime.Before(nowIST)
InPast(scheduledTime, t) == scheduledTime < t

\* parseRows: the order of lot orderNum of a row
LotOrder(row, side, orderNum) ==
    [id |-> OrderID(row.symbol, row.sched, Lots(row), orderNum),
     symbol |-> row.symbol,
     exchange |-> "NSE",
     price |-> row.price,
     quantity |-> OrderQuantity(TotalQuantity(row) \div Lots(row),
                                TotalQuantity(row) % Lots(row), orderNum),
     orderType |-> "LIMIT",
     side |-> side,
     sched |-> row.sched,
     isAMO |-> shouldUseAMO(row.sched)]

\* parseRows on the sheet of one side, at t
ParseRows(side, t) ==
    IF InPast(rRows[side].sched, t)
    THEN <<>>
    ELSE [orderNum \in 1..Lots(rRows[side]) |->
             LotOrder(rRows[side], side, orderNum)]

\* the channel chosen from the clock at dispatch
UseAMO_ByClock(o, t) == ~IsMarketOpen(t)

\* KiteBroker.ExecuteOrder: useAMO := order.IsAMO
UseAMO(o, t) == o.isAMO

\* KiteBroker.placeOrder posts to /orders/regular, unless the variety is "amo":
\* then it hands over to placeAMOOrder, which posts to /orders/amo
PlaceOrder(variety) == IF variety = "amo" THEN "amo" ELSE "regular"

\* KiteBroker.ExecuteOrder: the endpoints called for one order, in order
Endpoints(o, t) ==
    IF UseAMO(o, t)
    THEN <<"amo">>
    ELSE <<PlaceOrder(IF UseAMO(o, t) THEN "amo" ELSE "regular")>>

\* ParseSpec: one sheet, any rows, read and cached at any one instant.
ParseInit ==
    /\ IngestFrom(BuyRows, SellRows, ClockInstants)
    /\ PipelineIdle
    /\ StoreIdle
    /\ GateIdle
    /\ LoopIdle
    /\ PoolIdle

\* IngestSpec starts before the first cycle; time passes and the due orders
\* go to the broker.
IngestInit ==
    /\ IngestFrom(FewBuyRows, SellRows, {FirstInstant})
    /\ PipelineIdle
    /\ StoreIdle
    /\ GateIdle
    /\ LoopIdle
    /\ PoolIdle

\* Time passes to the next instant; Redis drops the keys whose TTL has elapsed.
IngestTick ==
    /\ \E u \in ClockInstants : u > rNow
    /\ rNow' = CHOOSE u \in ClockInstants :
                   u > rNow /\ \A v \in ClockInstants : v > rNow => u <= v
    /\ rStore' = {o \in rStore : ~(o.sched + Grace <= rNow')}
    /\ UNCHANGED <<rRows, rIng, rHist, vars, storeVars, gateVars, loopVars, poolVars>>

\* readAndCacheOrders: readSheet(BuyRange, "Buy"), then readSheet(SellRange,
\* "Sell"); a failure is logged, the orders of a sheet that was read are
\* appended to allOrders
ReadSheet(side) ==
    /\ rIng.pc = IF side = "Buy" THEN "wait" ELSE "sell"
    /\ \E ok \in BOOLEAN :
         LET got == IF ok THEN ParseRows(side, rNow) ELSE <<>>
         IN  /\ rIng' = IF side = "Buy"
                        THEN [pc |-> "sell", all |-> got, buyErr |-> ~ok,
                              sellErr |-> FALSE, inserted |-> 0]
                        ELSE [rIng EXCEPT !.pc = "cache", !.all = @ \o got,
                                          !.sellErr = ~ok]
             /\ rHist' = [rHist EXCEPT
                            !.parsed = IF side = "Buy" THEN got ELSE @,
                            !.kept = IF ok /\ ~(rRows[side].sched < rNow)
                                     THEN @ \cup {side} ELSE @,
                            !.late = IF ok /\ rRows[side].sched < rNow
                                     THEN @ \cup {side} ELSE @]
    /\ UNCHANGED <<rNow, rRows, rStore, vars, storeVars, gateVars, loopVars, poolVars>>

\* readAndCacheOrders: one turn of the loop over allOrders; StoreOrder fails on
\* a Redis error or an elapsed expiry, and the loop continues
CacheOrders ==
    /\ rIng.pc = "cache"
    /\ rIng.all # <<>>
    /\ \E redisOk \in BOOLEAN :
         LET o == Head(rIng.all)
             stored == redisOk /\ ~TtlRefused(o.sched + Grace - rNow)
         IN  /\ rStore' = IF stored
                          THEN {x \in rStore : x.id # o.id} \cup {o}
                          ELSE rStore
             /\ rIng' = [rIng EXCEPT !.all = Tail(@),
                                     !.inserted = IF stored THEN @ + 1 ELSE @]
    /\ UNCHANGED <<rNow, rRows, rHist, vars, storeVars, gateVars, loopVars, poolVars>>

\* readAndCacheOrders returns nil
CycleEnd ==
    /\ rIng.pc = "cache"
    /\ rIng.all = <<>>
    /\ rIng' = [rIng EXCEPT !.pc = "wait"]
    /\ UNCHANGED <<rNow, rRows, rStore, rHist, vars, storeVars, gateVars, loopVars, poolVars>>

\* The trigger hands a due order (score <= now, not now.After(expiry)) to
\* KiteBroker.ExecuteOrder and removes it whatever the result.  What the
\* broker's market clock says of the instant of the call is kept with it.
ExecuteOrder(o) ==
    /\ o \in rStore
    /\ o.sched <= rNow
    /\ ~(rNow > o.sched + Grace)
    /\ \E ok \in BOOLEAN :
         rHist' = [rHist EXCEPT !.last =
                      <<[order |-> o, open |-> IsMarketOpen(rNow),
                         amo |-> ShouldUseAMO(rNow),
                         endpoints |-> Endpoints(o, rNow), ok |-> ok]>>]
    /\ rStore' = rStore \ {o}
    /\ UNCHANGED <<rNow, rRows, rIng, vars, storeVars, gateVars, loopVars, poolVars>>

ParseNext ==
    \/ \E side \in {"Buy", "Sell"} : ReadSheet(side)
    \/ CacheOrders
    \/ CycleEnd

ParseSpec == ParseInit /\ [][ParseNext]_ingestVars

IngestNext ==
    \/ IngestTick
    \/ \E side \in {"Buy", "Sell"} : ReadSheet(side)
    \/ CacheOrders
    \/ CycleEnd
    \/ \E o \in rStore : ExecuteOrder(o)

IngestSpec == IngestInit /\ [][IngestNext]_ingestVars

\* ========================================= the two loops and the health check
\* Trigger.RunContinuous with the executions of MaintainSystemReadiness it
\* starts, and SheetsReader.Start.  A ticker holds at most one tick.

\* the context is never seen cancelled
CtxDone_Never(c) == FALSE

\* case <-ctx.Done() can proceed
CtxDone(c) == c = "cancelled"

\* the flag is not looked at
AlreadyRunning_Never(inProgress) == FALSE

\* RunContinuous: if t.healthCheckInProgress
AlreadyRunning(inProgress) == inProgress

\* a failed initial check ends the loop
AfterInitialCheck_Fatal(err) == IF err THEN "returned" ELSE "select"

\* RunContinuous: the initial check's error is logged, the loop starts
AfterInitialCheck(err) == "select"

\* checkTicker, healthCheckTicker or the reader's ticker fires; a loop that
\* has returned has stopped its tickers
TickerFires(k) ==
    /\ IF k = "read" THEN lRead # "returned" ELSE lTrig.pc # "returned"
    /\ ~lTick[k]
    /\ lTick' = [lTick EXCEPT ![k] = TRUE]
    /\ UNCHANGED <<lCtx, lTrig, lCheck, lRead, lHist, vars, storeVars, gateVars, ingestVars, poolVars>>

\* MaintainSystemReadiness: the error of t.cache.HealthCheck() is returned,
\* that of t.brokerManager.HealthCheck(ctx), made if the cache is healthy, is
\* logged
MaintainSystemReadiness(c) ==
    /\ lCheck[c].pc = "running"
    /\ \E cacheOk \in BOOLEAN : \E brokerOk \in BOOLEAN :
         /\ lCheck' = [lCheck EXCEPT ![c].pc = "done", ![c].err = ~cacheOk]
         /\ lHist' = [lHist EXCEPT !.failed = @ \/ ~cacheOk \/ ~brokerOk]
    /\ UNCHANGED <<lCtx, lTick, lTrig, lRead, vars, storeVars, gateVars, ingestVars, poolVars>>

\* RunContinuous: the initial check has returned
InitialReturns ==
    /\ lTrig.pc = "initial"
    /\ \E c \in CheckIds :
         /\ lCheck[c].pc = "done"
         /\ lCheck[c].by = "initial"
         /\ lTrig' = [lTrig EXCEPT !.pc = AfterInitialCheck(lCheck[c].err)]
         /\ lCheck' = [lCheck EXCEPT ![c] = NoCheck]
    /\ UNCHANGED <<lCtx, lTick, lRead, lHist, vars, storeVars, gateVars, ingestVars, poolVars>>

\* the goroutine's deferred function: healthCheckInProgress = false
PeriodicReturns(c) ==
    /\ lCheck[c].pc = "done"
    /\ lCheck[c].by = "periodic"
    /\ lCheck' = [lCheck EXCEPT ![c] = NoCheck]
    /\ lTrig' = [lTrig EXCEPT !.inProgress = FALSE]
    /\ UNCHANGED <<lCtx, lTick, lRead, lHist, vars, storeVars, gateVars, ingestVars, poolVars>>

\* RunContinuous: case <-ctx.Done(): return ctx.Err()
SelectDone ==
    /\ lTrig.pc = "select"
    /\ CtxDone(lCtx)
    /\ lTrig' = [lTrig EXCEPT !.pc = "returned"]
    /\ UNCHANGED <<lCtx, lTick, lCheck, lRead, lHist, vars, storeVars, gateVars, ingestVars, poolVars>>

\* RunContinuous: case <-checkTicker.C: t.ExecuteDueOrders(ctx) is called
SelectCheckTick ==
    /\ lTrig.pc = "select"
    /\ lTick["check"]
    /\ lTick' = [lTick EXCEPT !["check"] = FALSE]
    /\ lTrig' = [lTrig EXCEPT !.pc = "run"]
    /\ lHist' = [lHist EXCEPT !.runAfterFail = @ \/ lHist.failed]
    /\ UNCHANGED <<lCtx, lCheck, lRead, vars, storeVars, gateVars, ingestVars, poolVars>>

\* ExecuteDueOrders returns; its error is logged
RunReturns ==
    /\ lTrig.pc = "run"
    /\ lTrig' = [lTrig EXCEPT !.pc = "select"]
    /\ UNCHANGED <<lCtx, lTick, lCheck, lRead, lHist, vars, storeVars, gateVars, ingestVars, poolVars>>

\* RunContinuous: case <-healthCheckTicker.C; elapsed is
\* time.Since(lastHealthCheck) >= healthCheckInterval; the check runs in a
\* goroutine of its own
SelectHealthTick ==
    /\ lTrig.pc = "select"
    /\ lTick["health"]
    /\ lTick' = [lTick EXCEPT !["health"] = FALSE]
    /\ \E elapsed \in BOOLEAN :
         IF ~elapsed
         THEN UNCHANGED <<lTrig, lCheck, lHist>>
         ELSE IF AlreadyRunning(lTrig.inProgress)
         THEN /\ lHist' = [lHist EXCEPT !.skipped = TRUE]
              /\ UNCHANGED <<lTrig, lCheck>>
         ELSE /\ \E c \in CheckIds : lCheck[c].pc = "off"
              /\ lTrig' = [lTrig EXCEPT !.inProgress = TRUE]
              /\ lCheck' = [lCheck EXCEPT
                              ![CHOOSE c \in CheckIds : lCheck[c].pc = "off"] =
                                  [pc |-> "running", by |-> "periodic",
                                   err |-> FALSE]]
              /\ UNCHANGED lHist
    /\ UNCHANGED <<lCtx, lRead, vars, storeVars, gateVars, ingestVars, poolVars>>

\* the shutdown signal cancels the context
Shutdown ==
    /\ lCtx = "live"
    /\ lCtx' = "cancelled"
    /\ UNCHANGED <<lTick, lTrig, lCheck, lRead, lHist, vars, storeVars, gateVars, ingestVars, poolVars>>

\* Start: readAndCacheOrders returns, always nil, so that the retry after a
\* tick is never made
ReadReturns ==
    /\ lRead \in {"initial", "read"}
    /\ lRead' = "select"
    /\ UNCHANGED <<lCtx, lTick, lTrig, lCheck, lHist, vars, storeVars, gateVars, ingestVars, poolVars>>

\* Start: case <-ticker.C: readAndCacheOrders is called
SelectReadTick ==
    /\ lRead = "select"
    /\ lTick["read"]
    /\ lTick' = [lTick EXCEPT !["read"] = FALSE]
    /\ lRead' = "read"
    /\ UNCHANGED <<lCtx, lTrig, lCheck, lHist, vars, storeVars, gateVars, ingestVars, poolVars>>

\* Start: case <-ctx.Done(): return ctx.Err()
ReaderDone ==
    /\ lRead = "select"
    /\ CtxDone(lCtx)
    /\ lRead' = "returned"
    /\ UNCHANGED <<lCtx, lTick, lTrig, lCheck, lHist, vars, storeVars, gateVars, ingestVars, poolVars>>

LoopNext ==
    \/ \E k \in {"check", "health", "read"} : TickerFires(k)
    \/ \E c \in CheckIds : MaintainSystemReadiness(c)
    \/ InitialReturns
    \/ \E c \in CheckIds : PeriodicReturns(c)
    \/ SelectDone
    \/ SelectCheckTick
    \/ RunReturns
    \/ SelectHealthTick
    \/ Shutdown
    \/ ReadReturns
    \/ SelectReadTick
    \/ ReaderDone

LoopSpec == Init /\ [][LoopNext]_loopVars

\* The calls in flight return, and a select whose ctx.Done() case can proceed
\* again and again takes it in the end: Go chooses uniformly at random among
\* the cases that can proceed.
LoopFairSpec ==
    /\ LoopSpec
    /\ \A c \in CheckIds : WF_loopVars(MaintainSystemReadiness(c))
    /\ WF_loopVars(InitialReturns)
    /\ WF_loopVars(RunReturns)
    /\ WF_loopVars(ReadReturns)
    /\ SF_loopVars(SelectDone)
    /\ SF_loopVars(ReaderDone)

\* ============================================================ the worker pool
\* One call of Trigger.ExecuteDueOrders with the goroutines it starts.  What a
\* TryLock answers is the store's affair: the lock of a due order can be held
\* by another process, and Redis can fail.

\* one goroutine for every due order
WorkersStarted_PerOrder(orders) == 1..Len(orders)

\* ExecuteDueOrders: for i := 0; i < t.workerPool; i++ { go t.worker(...) }
WorkersStarted(orders) == 1..PoolSize

\* a worker that gives up after an attempt that failed
AfterOrder_StopOnFailure(ok) == IF ok THEN "recv" ELSE "off"

\* worker: executeOrder has returned, on to the next "range orderChan"
AfterOrder(ok) == "recv"

\* ExecuteDueOrders, from the due query to close(orderChan): the orders with
\* score <= now are found, the goroutines are started and the buffered
\* channel is filled
PoolStart ==
    /\ pRun.pc = "idle"
    /\ \E n \in 1..PoolOrders :
         LET orders == [i \in 1..n |-> i] IN
         /\ pRun' = [pc |-> "running", list |-> orders, chan |-> orders]
         /\ pWk' = [w \in DOMAIN pWk |->
                       IF w \in WorkersStarted(orders)
                       THEN [pc |-> "recv", cur |-> NoOrder]
                       ELSE pWk[w]]
         /\ pHist' = [pHist EXCEPT !.left = IF pCtx = "cancelled"
                                             THEN 1..n ELSE @]
    /\ UNCHANGED <<pCtx, pStore, bRetry, vars, storeVars, gateVars, ingestVars, loopVars>>

\* worker: one turn of "for order := range orderChan": the select on
\* ctx.Done(), then executeOrder up to the answer of TryLock
PoolRecv(w) ==
    /\ pWk[w].pc = "recv"
    /\ IF pRun.chan = <<>>
       THEN /\ pWk' = [pWk EXCEPT ![w] = [pc |-> "off", cur |-> NoOrder]]
            /\ UNCHANGED <<pRun, pStore, pHist>>
       ELSE LET id == Head(pRun.chan) IN
            /\ pRun' = [pRun EXCEPT !.chan = Tail(@)]
            /\ IF CtxDone(pCtx)
               THEN /\ pWk' = [pWk EXCEPT ![w] = [pc |-> "off", cur |-> NoOrder]]
                    /\ UNCHANGED <<pStore, pHist>>
               ELSE \E res \in {"acquired", "held", "error"} :
                      /\ pWk' = [pWk EXCEPT ![w] =
                                    IF res = "acquired"
                                    THEN [pc |-> "gate", cur |-> id]
                                    ELSE [pc |-> "recv", cur |-> NoOrder]]
                      /\ pStore' = IF res = "error" THEN pStore \ {id} ELSE pStore
                      /\ pHist' = [pHist EXCEPT
                            !.by[id] = Append(@, w),
                            !.locked = IF res = "acquired" THEN @ \cup {id} ELSE @,
                            !.removed = IF res = "error" THEN @ \cup {id} ELSE @]
    /\ UNCHANGED <<pCtx, bRetry, vars, storeVars, gateVars, ingestVars, loopVars>>

\* BrokerManager.ExecuteOrder: bm.rateLimit.Wait(ctx).  With a cancelled
\* context Wait fails: executeOrder removes the order, the deferred ReleaseLock
\* runs and the worker is back at its loop.  Otherwise the broker is called.
PoolGate(w) ==
    /\ pWk[w].pc = "gate"
    /\ IF CtxDone(pCtx)
       THEN /\ pWk' = [pWk EXCEPT ![w] = [pc |-> AfterOrder(FALSE), cur |-> NoOrder]]
            /\ pStore' = pStore \ {pWk[w].cur}
            /\ pHist' = [pHist EXCEPT !.removed = @ \cup {pWk[w].cur}]
       ELSE /\ pWk' = [pWk EXCEPT ![w].pc = "broker"]
            /\ pHist' = [pHist EXCEPT !.called = @ \cup {pWk[w].cur}]
            /\ UNCHANGED pStore
    /\ UNCHANGED <<pCtx, pRun, bRetry, vars, storeVars, gateVars, ingestVars, loopVars>>

\* bm.broker.ExecuteOrder returns, with or without an error: removeOrder, the
\* deferred ReleaseLock, and the worker is back at its loop
PoolBrokerReturns(w) ==
    /\ pWk[w].pc = "broker"
    /\ \E ok \in BOOLEAN :
         /\ pWk' = [pWk EXCEPT ![w] = [pc |-> AfterOrder(ok), cur |-> NoOrder]]
         /\ pHist' = [pHist EXCEPT !.removed = @ \cup {pWk[w].cur},
                                   !.failed = IF ok THEN @ ELSE @ \cup {pWk[w].cur}]
    /\ pStore' = pStore \ {pWk[w].cur}
    /\ UNCHANGED <<pCtx, pRun, bRetry, vars, storeVars, gateVars, ingestVars, loopVars>>

\* the shutdown signal cancels the context; the orders still in the channel
\* have not been handed to executeOrder
PoolCancel ==
    /\ pCtx = "live"
    /\ pRun.pc \in {"idle", "running"}
    /\ pCtx' = "cancelled"
    /\ pHist' = [pHist EXCEPT !.left =
                    {pRun.chan[i] : i \in 1..Len(pRun.chan)}]
    /\ UNCHANGED <<pRun, pWk, pStore, bRetry, vars, storeVars, gateVars, ingestVars, loopVars>>

\* ExecuteDueOrders: wg.Wait() returns once every goroutine has returned
PoolReturn ==
    /\ pRun.pc = "running"
    /\ \A w \in DOMAIN pWk : pWk[w].pc = "off"
    /\ pRun' = [pRun EXCEPT !.pc = "returned"]
    /\ UNCHANGED <<pCtx, pWk, pStore, pHist, bRetry, vars, storeVars, gateVars, ingestVars, loopVars>>

PoolSpec ==
    /\ Init
    /\ [][\/ PoolStart
          \/ \E w \in DOMAIN pWk : PoolRecv(w)
          \/ \E w \in DOMAIN pWk : PoolGate(w)
          \/ \E w \in DOMAIN pWk : PoolBrokerReturns(w)
          \/ PoolCancel
          \/ PoolReturn]_poolVars

\* Every goroutine of the pool gets to run, and the calls it makes (Redis, the
\* rate limiter, the broker with its HTTP timeout) return.
PoolFairSpec ==
    /\ PoolSpec
    /\ \A w \in 1..(PoolOrders + PoolSize) :
          /\ WF_poolVars(PoolRecv(w))
          /\ WF_poolVars(PoolGate(w))
          /\ WF_poolVars(PoolBrokerReturns(w))
    /\ WF_poolVars(PoolReturn)

\* ======================================================= the retrying broker
\* An error of the broker is the set of marker lists its lowercased message
\* has a substring of: authErrors, invalidErrors, retryErrors.

\* the marker lists looked at in the other order
shouldRetry_RetryFirst(err) == err.retry

\* shouldRetry: authErrors -> false, invalidErrors -> false, retryErrors -> true,
\* otherwise false
shouldRetry(err) ==
    IF err.auth THEN FALSE
    ELSE IF err.invalid THEN FALSE
    ELSE err.retry

\* ExecuteOrderWithRetry(ctx, order, 3): executeSplitOrder when splitting is
\* enabled and the quantity is above MaxOrderSize, with
\* numSplits = ceil(quantity / maxSize); else executeSingleOrder.  The first
\* executeSingleOrder call begins with attempt 0.
RetryStart ==
    /\ bRetry.pc = "idle"
    /\ \E q \in 1..RetryMaxQuantity, enabled \in BOOLEAN :
          bRetry' = [bRetry EXCEPT
              !.pc = "wait",
              !.qty = q,
              !.parts = IF enabled /\ q > MaxOrderSize
                        THEN (q + MaxOrderSize - 1) \div MaxOrderSize
                        ELSE 1,
              !.part = 1]
    /\ UNCHANGED <<pCtx, pRun, pWk, pStore, pHist, vars, storeVars, gateVars, ingestVars, loopVars>>

\* executeSingleOrder: bm.rateLimit.Wait(ctx); an error ends the call
RetryWait ==
    /\ bRetry.pc = "wait"
    /\ \E ok \in BOOLEAN :
          bRetry' = IF ok
                    THEN [bRetry EXCEPT !.pc = "call", !.tokens = @ + 1]
                    ELSE [bRetry EXCEPT !.pc = "ret"]
    /\ UNCHANGED <<pCtx, pRun, pWk, pStore, pHist, vars, storeVars, gateVars, ingestVars, loopVars>>

\* executeSingleOrder: bm.broker.ExecuteOrder(ctx, order) and the rest of the
\* iteration: return on success, break when !shouldRetry(err), return when
\* the context is done during the retry delay, else attempt++ and the loop
\* test attempt <= maxRetries.
RetryCall ==
    /\ bRetry.pc = "call"
    /\ \E ok \in BOOLEAN, err \in [auth : BOOLEAN, invalid : BOOLEAN, retry : BOOLEAN],
          done \in BOOLEAN :
          LET called == [bRetry EXCEPT
                  !.tokens = @ - 1,
                  !.gated = @ /\ bRetry.tokens > 0,
                  !.calls = @ + 1,
                  !.total = @ + 1,
                  !.afterFatal = @ \/ bRetry.fatal]
          IN  bRetry' =
                 IF ok THEN [called EXCEPT !.pc = "ret"]
                 ELSE LET failed == [called EXCEPT
                              !.errs = Append(@, err),
                              !.fatal = @ \/ err.auth \/ err.invalid]
                      IN  IF ~shouldRetry(err) \/ done
                             \/ bRetry.attempt + 1 > MaxRetries
                          THEN [failed EXCEPT !.pc = "ret"]
                          ELSE [failed EXCEPT !.pc = "wait", !.attempt = @ + 1]
    /\ UNCHANGED <<pCtx, pRun, pWk, pStore, pHist, vars, storeVars, gateVars, ingestVars, loopVars>>

\* executeSingleOrder has returned: ExecuteOrderWithRetry returns, or
\* executeSplitOrder goes on with the next part, also after a failed one
\* ("Continue with other splits even if one fails").
RetrySplit ==
    /\ bRetry.pc = "ret"
    /\ bRetry' = IF bRetry.part < bRetry.parts
                 THEN [bRetry EXCEPT !.pc = "wait", !.part = @ + 1, !.attempt = 0,
                                     !.tokens = 0, !.calls = 0, !.errs = <<>>]
                 ELSE [bRetry EXCEPT !.pc = "done"]
    /\ UNCHANGED <<pCtx, pRun, pWk, pStore, pHist, vars, storeVars, gateVars, ingestVars, loopVars>>

RetrySpec ==
    Init /\ [][RetryStart \/ RetryWait \/ RetryCall \/ RetrySplit]_bRetry

\* ============================================================== properties

InChan(id, d) == \E i \in 1..Len(disp[d].chan) : disp[d].chan[i] = id

\* worker w of process d gets true from TryLock in this step
Acquires(d, w) == wk[d][w].pc = "lock" /\ wk'[d][w].pc = "gate"

\* process d gets a non-empty result from GetOrdersDueForExecution in this step
DueReturns(d, id) ==
    /\ disp[d].pc = "idle"
    /\ disp'[d].pc = "running"
    /\ \E i \in 1..Len(disp'[d].chan) : disp'[d].chan[i] = id

Live(d) == disp[d].pc \in {"idle", "running"} /\ ~disp[d].cancelled

\* C1: every order id receives at most one broker placement call in total,
\* whatever the interleaving of the dispatchers.
C1_AtMostOnePlacement == \A id \in Ids : placed[id] <= 1

\* C2: once a dispatcher has made its broker call for an order and removed it,
\* no later due() call returns that order again.
C2_NoDueAfterRemoval ==
    [][\A d \in Dispatchers : \A id \in Ids :
          hist.done[id] => ~DueReturns(d, id)]_vars

C4_RemovedOnlyAfterBrokerCall ==
    [][\A id \in Ids :
          (rec[id] # NoKey /\ rec'[id] = NoKey) =>
              \/ now' # now
              \/ now > rec[id]
              \/ \E d \in Dispatchers : \E w \in Workers :
                    /\ wk[d][w].cur = id
                    /\ wk[d][w].calls >= 1
                    /\ wk[d][w].pc \in {"failed", "succeeded"}
                    /\ wk'[d][w].pc = "unlock"]_vars

\* C5: a worker whose rate-limit wait failed on a cancelled context does not
\* remove the order from the store.
C5_GateFailureKeepsOrder ==
    \A d \in Dispatchers : \A w \in Workers :
        wk[d][w].gate = "err" => ~wk[d][w].removed

\* C6: the outcome of an attempt is emitted only after remove(id) was invoked.
C6_RemoveBeforeOutcome ==
    \A d \in Dispatchers : \A w \in Workers : wk[d][w].emitted # "beforeRemove"

\* C7 as stated: after a try_lock(id) that returned true at t0 no try_lock(id)
\* returns true before t0 + ttl, whatever unlock calls came in between.
C7_ExclusiveForTTL ==
    [][\A d \in Dispatchers : \A w \in Workers :
          Acquires(d, w) =>
              \/ hist.lastAcq[wk[d][w].cur] = Never
              \/ now >= hist.lastAcq[wk[d][w].cur] + LockTTL]_vars

\* C7 amended: after a try_lock(id) that returned true at t0 no try_lock(id)
\* returns true before t0 + ttl unless unlock(id) was executed in between.
C7_ExclusiveUntilUnlock ==
    [][\A d \in Dispatchers : \A w \in Workers :
          Acquires(d, w) =>
              \/ hist.lastAcq[wk[d][w].cur] = Never
              \/ now >= hist.lastAcq[wk[d][w].cur] + LockTTL
              \/ hist.unlocked[wk[d][w].cur]]_vars

\* C7 witness: inside the TTL window of a lock that was not released, another
\* worker's try_lock for the same id has returned false.
C7_Witness ==
    \E id \in Ids : \E d \in Dispatchers : \E w \in Workers :
        /\ hist.lastAcq[id] # Never
        /\ ~hist.unlocked[id]
        /\ now < hist.lastAcq[id] + LockTTL
        /\ wk[d][w].pc = "skip"
        /\ wk[d][w].cur = id

Gone(id) ==
    /\ rec[id] = NoKey
    /\ idx[id] = NoScore
    /\ \A d \in Dispatchers : ~InChan(id, d) /\ \A w \in Workers : wk[d][w].cur # id

C10_SkipChangesNothing ==
    [][\A d \in Dispatchers : \A w \in Workers :
          (/\ wk'[d][w] # wk[d][w]
           /\ disp'[d].pc # "crashed"
           /\ \/ wk[d][w].pc = "skip"
              \/ wk[d][w].pc = "lock" /\ wk'[d][w].pc = "skip") =>
              /\ UNCHANGED <<rec, idx, lock, placed>>
              /\ wk'[d][w].pc \in {"skip", "recv"}]_vars

\* C10 witness: a worker was refused the lock of an order that is still in
\* the store and locked by another worker.
C10_Witness ==
    \E d \in Dispatchers : \E w \in Workers :
        /\ wk[d][w].pc = "skip"
        /\ lock[wk[d][w].cur] # NoKey
        /\ rec[wk[d][w].cur] # NoKey
        /\ idx[wk[d][w].cur] # NoScore

\* C11: no broker placement call for an order starts at an instant later
\* than the order's expiry instant (scheduled + grace), however long the order
\* waited in the worker queue, for its lock or at the rate gate.
C11_NoPlacementAfterExpiry ==
    [][\A d \in Dispatchers : \A w \in Workers :
          (wk[d][w].pc = "broker" /\ wk'[d][w].pc \in {"failed", "succeeded"}) =>
              now <= ExpiryTime(wk[d][w].cur)]_vars

\* C12: two StoreOrder calls for the same order in a row, each with its expiry
\* in the future, leave the record and the due-index entry of the id in the
\* store, the entry with the score it had after the first call.
C12_InsertTwice ==
    sHist.prev.n = 2 =>
        /\ sRec[sHist.prev.id] # NoRec
        /\ sIdx[sHist.prev.id] # NoScore
        /\ sIdx[sHist.prev.id] = sHist.prev.score

\* C12 witness: the second of two inserts in a row has completed at a later
\* instant than the sheet was first cached.
C12_Witness == sHist.prev.n = 2 /\ sNow > 0 /\ sIns.res = "ok"

\* no store call is in progress and every record has its due-index entry
StoreSettled ==
    /\ sIns.pc = "idle"
    /\ sRem.pc = "idle"
    /\ \A id \in StoreIds : sRec[id] # NoRec => sIdx[id] # NoScore

Pos(q, x) == CHOOSE i \in 1..Len(q) : q[i] = x

\* C14 as stated: due(now) returns the orders by non-decreasing scheduled
\* instant, orders with equal scheduled instant in the order of insertion.
C14_TiesByInsertion ==
    LET r == StoreDueOrders(sNow) IN
    \A i \in 1..Len(r) : \A j \in 1..Len(r) :
        i < j =>
            /\ StoreSched(r[i]) <= StoreSched(r[j])
            /\ StoreSched(r[i]) = StoreSched(r[j]) =>
                   Pos(sHist.ord, r[i]) < Pos(sHist.ord, r[j])

\* C14 amended: due(now) returns the orders by non-decreasing scheduled
\* instant, orders with equal scheduled instant in the order of their ids.
C14_TiesById ==
    LET r == StoreDueOrders(sNow) IN
    \A i \in 1..Len(r) : \A j \in 1..Len(r) :
        i < j =>
            /\ StoreSched(r[i]) <= StoreSched(r[j])
            /\ StoreSched(r[i]) = StoreSched(r[j]) => r[i] < r[j]

\* C14 witness: two orders with the same scheduled instant are due, the one
\* with the larger id was inserted first, and due(now) returns it last.
C14_Witness ==
    /\ StoreDueOrders(sNow) = <<1, 2>>
    /\ sHist.ord = <<2, 1>>
    /\ StoreSched(1) = StoreSched(2)

C16_ExpiredInsertRefused ==
    [][\A id \in StoreIds :
          (InsertBegin(id) /\ StoreExpiry(id) <= sNow) =>
              /\ sIns'.res = "expired"
              /\ sIns'.pc = "idle"
              /\ UNCHANGED <<sRec, sIdx>>]_storeVars

\* C16 witness: a StoreOrder call was refused at the very instant of its
\* expiry while the store held a record.
C16_Witness ==
    /\ sIns.res = "expired"
    /\ \E id \in StoreIds : sRec[id] # NoRec /\ StoreExpiry(id) = sNow

\* C17: when no store call is in progress, every record has its due-index
\* entry, whatever the interleaving of StoreOrder with RemoveOrder.
C17_NoRecordWithoutIndex ==
    (sIns.pc = "idle" /\ sRem.pc = "idle") =>
        \A id \in StoreIds : sRec[id] # NoRec => sIdx[id] # NoScore

\* C18: every broker call of the process, order placement and health probe
\* alike, is preceded by its own successful acquire on the rate limiter.
C18_EveryCallGated == gHist.calls <= gHist.grants

\* C19 as stated, for the last second explored: at most burst + rate broker
\* calls complete within one second, whatever their latency.
C19_CompletedPerSecond == gHist.lateEnds <= Burst + Rate

\* C19 amended: at most burst + rate order placements pass the rate limiter
\* (and start their broker call) within any one second.
C19_StartedPerSecond == SumSeq(gHist.starts) <= Burst + Rate

\* C19 witness: a full second into the cycle, burst + rate placements have
\* passed the limiter within the last second and a worker waits for a token.
C19_Witness ==
    /\ gNow >= Rate
    /\ SumSeq(gHist.starts) = Burst + Rate
    /\ gTokens = 0
    /\ \E w \in GateWorkerIds : gWk[w] = "gate"

\* a / b rounded up
CeilDiv(a, b) == (a + b - 1) \div b

\* C20 as stated: when the cycle over the orders due together has ended, each
\* order got its broker call and the earliest and the latest call are at
\* least ceil((orders - burst) / rate) seconds apart (3 s for 10 orders at
\* rate 3 and burst 3).
C20_SpanWholeSeconds ==
    gPc = "done" =>
        /\ gHist.grants = NumGateOrders
        /\ gHist.last - gHist.first >= CeilDiv(NumGateOrders - Burst, Rate) * Rate

\* C20 amended: when the cycle over the orders due together has ended, each
\* order got its broker call and the earliest and the latest call are at
\* least (orders - burst) token intervals apart (7/3 s for 10 orders at rate 3
\* and burst 3).
C20_SpanTokenIntervals ==
    gPc = "done" =>
        /\ gHist.grants = NumGateOrders
        /\ gHist.last - gHist.first >= NumGateOrders - Burst

\* C20 witness: the cycle has ended with every order placed and the calls
\* spread over exactly (orders - burst) token intervals.
C20_Witness ==
    /\ gPc = "done"
    /\ gHist.grants = NumGateOrders
    /\ gHist.last - gHist.first = NumGateOrders - Burst

\* ------------------------------------------------------------ the read module

\* the orders the current cycle has parsed and not yet cached, and the orders
\* in the store
Produced == {rIng.all[i] : i \in 1..Len(rIng.all)} \cup rStore

C22_AmoIffNotOpen ==
    \A o \in Produced : o.isAMO = ~IsMarketOpen(o.sched)

\* C23 as stated: every order in the store has quantity >= 1.
C23_QuantityAtLeastOne ==
    \A o \in rStore : o.quantity >= 1

C25_LateRowLeavesNothing ==
    \A side \in {"Buy", "Sell"} :
        side \notin rHist.kept =>
            /\ \A o \in Produced : o.side # side
            /\ rHist.last # <<>> => rHist.last[1].order.side # side

\* C25 witness: the buy row was examined after its scheduled instant and
\* never before, that cycle has ended, and the broker has been called for
\* another order since.
C25_Witness ==
    /\ "Buy" \in rHist.late
    /\ "Buy" \notin rHist.kept
    /\ rIng.pc = "wait"
    /\ rHist.last # <<>>

\* C26: the orders parsed from one row with more than one lot have pairwise
\* distinct ids and the same symbol, exchange, side, type, price, scheduled
\* instant and is_amo.
C26_LotsDifferInIdOnly ==
    (rHist.parsed # <<>> /\ Lots(rRows["Buy"]) > 1) =>
        \A i, j \in 1..Len(rHist.parsed) :
            /\ i # j => rHist.parsed[i].id # rHist.parsed[j].id
            /\ [rHist.parsed[i] EXCEPT !.id = <<>>, !.quantity = 0]
                   = [rHist.parsed[j] EXCEPT !.id = <<>>, !.quantity = 0]

\* C26 witness: a row with three lots was parsed into three orders.
C26_Witness ==
    /\ rRows["Buy"].lots = 3
    /\ Len(rHist.parsed) = 3

\* C29 as stated: a cycle in which the fetch of the buy sheet or of the sell
\* sheet failed inserts no order into the store.
C29_FailedFetchSkipsCycle ==
    (rIng.buyErr \/ rIng.sellErr) => rIng.inserted = 0

\* ------------------------------------------------------------------ the loops

\* C27: once a health check has failed, of the store or of the broker, at
\* start-up or later, RunContinuous still returns only when the context is
\* cancelled, and every dispatch tick it takes calls ExecuteDueOrders.
C27_FailedCheckKeepsLoop ==
    [][lHist.failed =>
          /\ (lTrig.pc # "returned" /\ lTrig'.pc = "returned")
                 => lCtx = "cancelled"
          /\ (lTick["check"] /\ ~lTick'["check"])
                 => lTrig'.pc = "run"]_loopVars

\* C27 witness: a health check has failed and, the context still live,
\* ExecuteDueOrders is running on a later tick.
C27_Witness ==
    /\ lHist.runAfterFail
    /\ lTrig.pc = "run"
    /\ lCtx = "live"

\* C28: at no instant are two executions of MaintainSystemReadiness running.
C28_OneCheckAtATime ==
    Cardinality({c \in CheckIds : lCheck[c].pc = "running"}) <= 1

\* C28 witness: a health tick arrived while a check was running and was
\* skipped; the check is still running.
C28_Witness ==
    /\ lHist.skipped
    /\ \E c \in CheckIds : lCheck[c].pc = "running" /\ lCheck[c].by = "periodic"

\* C30: once the context is cancelled, RunContinuous and Start both return.
C30_LoopsReturn ==
    (lCtx = "cancelled") ~> (lTrig.pc = "returned" /\ lRead = "returned")

\* C30 witness: the context is cancelled and both loops have returned.
C30_Witness ==
    /\ lCtx = "cancelled"
    /\ lTrig.pc = "returned"
    /\ lRead = "returned"

\* C31: once cancellation has been signalled, an order of the current due list
\* whose dispatch protocol has not yet started is left untouched: no worker
\* of the cycle takes it up, acquires its lock, calls the broker for it or
\* removes it, and it is still in the store.
C31_UnstartedLeftAlone ==
    \A id \in pHist.left :
        /\ pHist.by[id] = <<>>
        /\ id \notin pHist.locked \cup pHist.called \cup pHist.removed
        /\ \A w \in DOMAIN pWk : pWk[w].cur # id
        /\ id \in pStore

\* the context was cancelled while orders waited in the channel and another
\* order was being dispatched; the cycle has returned
C31_Witness ==
    /\ pCtx = "cancelled"
    /\ pRun.pc = "returned"
    /\ pHist.left # {}
    /\ pHist.removed # {}
    /\ pHist.left \subseteq pStore

\* C32: on every path after TryLock returned true, the unlock is the last
\* store operation of the attempt and comes after the removal, so that the
\* lock is never released while the order is still in the store following a
\* broker call: a worker about to run its deferred ReleaseLock has called
\* removeOrder, and if it called the broker neither the record nor the index
\* entry of its order is in the store.
C32_UnlockAfterRemove ==
    \A d \in Dispatchers : \A w \in Workers :
        wk[d][w].pc = "unlock" =>
            /\ wk[d][w].removed
            /\ wk[d][w].calls > 0 =>
                   /\ rec[wk[d][w].cur] = NoKey
                   /\ idx[wk[d][w].cur] = NoScore

\* C33: absent cancellation ExecuteDueOrders returns, and when it returns
\* every order of the list it got from the due query has been handed to
\* executeOrder exactly once, by one worker, whatever the results of the
\* broker calls of the other orders.
C33_EveryOrderOnce ==
    /\ [](pRun.pc = "returned" /\ pCtx = "live" =>
            \A i \in 1..Len(pRun.list) : Len(pHist.by[pRun.list[i]]) = 1)
    /\ (pRun.pc = "running") ~> (pRun.pc = "returned" \/ pCtx = "cancelled")

\* a cycle over more orders than workers has returned without cancellation;
\* one broker call failed, another succeeded
C33_Witness ==
    /\ pRun.pc = "returned"
    /\ pCtx = "live"
    /\ Len(pRun.list) > PoolSize
    /\ pHist.failed # {}
    /\ pHist.called \ pHist.failed # {}
    /\ \A i \in 1..Len(pRun.list) : Len(pHist.by[pRun.list[i]]) = 1

\* C34: at every instant of a cycle with pool size W at most W orders are
\* inside the dispatch protocol (between the TryLock that returned true and
\* the end of the attempt), and so at most W broker calls are in flight,
\* however long the due list is.
C34_AtMostPoolSizeInside ==
    /\ Cardinality({id \in 1..PoolOrders :
           \E w \in DOMAIN pWk : pWk[w].cur = id /\ pWk[w].pc \in {"gate", "broker"}})
         <= PoolSize
    /\ Cardinality({w \in DOMAIN pWk : pWk[w].pc = "broker"}) <= PoolSize

\* the due list is longer than the pool, every worker of the pool is inside a
\* broker call and an order waits in the channel
C34_Witness ==
    /\ Len(pRun.list) > PoolSize
    /\ Cardinality({w \in DOMAIN pWk : pWk[w].pc = "broker"}) = PoolSize
    /\ pRun.chan # <<>>

C36_OpenIffWeekdayHours ==
    [][(rHist'.last # rHist.last /\ rHist'.last # <<>>) =>
          LET day == (rNow \div 86400) % 7
              tod == rNow % 86400
              open == /\ day \in 1..5
                      /\ 9 * 3600 <= tod
                      /\ tod < 15 * 3600 + 30 * 60
          IN  /\ rHist'.last[1].open = open
              /\ rHist'.last[1].amo = ~open]_ingestVars

\* C36 witness: the order scheduled five seconds before Monday's open has
\* just gone to the broker at 09:00:00 sharp, and the clock said open.
C36_Witness ==
    /\ rHist.last # <<>>
    /\ rHist.last[1].order.sched = At(8, 8, 59, 55)
    /\ rHist.last[1].open
    /\ ~rHist.last[1].amo
    /\ rNow = At(8, 9, 0, 0)

\* C38: the unlock a worker executes only ever deletes the lock entry this
\* same worker created: when a worker runs its deferred ReleaseLock, the key
\* lock:order:{id} is either gone or the one its own TryLock wrote, never one
\* that another worker acquired after the first lock ran out.
C38_UnlockOwnLockOnly ==
    \A d \in Dispatchers : \A w \in Workers :
        wk[d][w].pc = "unlock" =>
            \/ lock[wk[d][w].cur] = NoKey
            \/ lock[wk[d][w].cur] = wk[d][w].acqAt + LockTTL

\* C39: the orders one ingest cycle produces from different rows have
\* distinct ids, a buy row and a sell row for the same symbol and scheduled
\* instant included, so that caching one never overwrites the other: no two
\* entries of allOrders carry the same id.
C39_RowsHaveDistinctIds ==
    rIng.pc = "cache" =>
        \A i \in 1..Len(rIng.all) : \A j \in 1..Len(rIng.all) :
            i # j => rIng.all[i].id # rIng.all[j].id

\* C40: while the trigger keeps polling and Redis answers, every record and
\* every member of pending_orders that is ever written is gone again later,
\* removed after dispatch or evicted after its expiry: no key order:{id} and
\* no member id stays in the store for ever.
C40_EverythingGoes ==
    \A id \in StoreIds :
        (sRec[id] # NoRec \/ sIdx[id] # NoScore) ~>
            (sRec[id] = NoRec /\ sIdx[id] = NoScore)

\* C40 witness: a StoreOrder call wrote an order, no due() call ever returned
\* an order to the trigger, and the store is empty again: the record was
\* dropped after its expiry and its member was evicted.
C40_Witness ==
    /\ sIns.res = "ok"
    /\ sHist.given = {}
    /\ \A id \in StoreIds : sRec[id] = NoRec /\ sIdx[id] = NoScore

\* C37 as stated: for the order handed to ExecuteOrderWithRetry the broker is
\* called at most MaxRetries + 1 times, and no call for it follows a failure
\* classified as authentication or invalid request.
C37_AtMostFourCallsPerOrder ==
    /\ bRetry.total <= MaxRetries + 1
    /\ ~bRetry.afterFatal

\* C37: within one executeSingleOrder call (the order itself when it is not
\* split, else one part of it) the broker is called at most MaxRetries + 1
\* times, each call after its own rateLimit.Wait, and a failed call is
\* followed by another call only when its error carries a marker of
\* retryErrors and none of authErrors or invalidErrors.
C37_AtMostFourCallsPerPart ==
    /\ bRetry.calls <= MaxRetries + 1
    /\ bRetry.gated
    /\ \A i \in 1..Len(bRetry.errs) :
          i < bRetry.calls =>
             /\ bRetry.errs[i].retry
             /\ ~bRetry.errs[i].auth
             /\ ~bRetry.errs[i].invalid

\* C37 witness: a part was called MaxRetries + 1 times and its last call
\* failed with an authentication error, after which the call returned.
C37_Witness ==
    /\ bRetry.pc = "ret"
    /\ bRetry.calls = MaxRetries + 1
    /\ Len(bRetry.errs) = MaxRetries + 1
    /\ bRetry.errs[MaxRetries + 1].auth

====
